---- MODULE Spec2Model ----
(***************************************************************************)
(* Model of the NUSA Compute provider client (src/provider_client.py):     *)
(* startup (GPU detection, node identity, registry client), the heartbeat  *)
(* loop with its retry/backoff policy, and the shutdown handler.           *)
(*                                                                         *)
(* Units: time in seconds; GPU load in 0.001 percent before rounding and    *)
(* in 0.01 percent after round(.., 2); memoryTotal in 0.1 MB before int().  *)
(***************************************************************************)
EXTENDS Integers, Sequences, FiniteSets, TLC

(* ------------------------------------------------------------------ *)
(* Program constants                                                   *)
(* ------------------------------------------------------------------ *)
HeartbeatIntervalHalved == 60 \div 2
HEARTBEAT_INTERVAL == 60

MaxRetriesTwo == 3 - 1
MAX_RETRIES == 3

RetryDelaysDoubled == <<2, 4, 8>>
RETRY_DELAYS == <<1, 2, 4>>

UrlPlaceholder == "your_supabase_url_here"
KeyPlaceholder == "your_supabase_anon_key_here"

(* ------------------------------------------------------------------ *)
(* Bounds of the model                                                 *)
(* ------------------------------------------------------------------ *)
MaxTicks    == 2   \* ticks started in one run
SleepGrain  == 2   \* seconds of a sleep that pass one by one; the rest passes at once
MaxSignals  == 2   \* interrupts (SIGINT) delivered in one run
MaxResolves == 3   \* identity resolutions in the identity harness

(* ------------------------------------------------------------------ *)
(* Exit statuses                                                       *)
(* ------------------------------------------------------------------ *)
NotExited      == -1
ExitOk         == 0     \* sys.exit(0)
ExitFatal      == 1     \* sys.exit(1)
ExitInterrupt  == 130   \* uncaught KeyboardInterrupt
ExitTerminated == 143   \* killed by SIGTERM (default disposition)

(* ------------------------------------------------------------------ *)
(* Text of the identity file: sequences of characters                  *)
(* ------------------------------------------------------------------ *)
Whitespace == {" ", "\n", "\t"}

RECURSIVE LStrip(_)
LStrip(s) ==
    IF s = <<>> THEN <<>>
    ELSE IF Head(s) \in Whitespace THEN LStrip(Tail(s)) ELSE s

RECURSIVE RStrip(_)
RStrip(s) ==
    IF s = <<>> THEN <<>>
    ELSE IF s[Len(s)] \in Whitespace THEN RStrip(SubSeq(s, 1, Len(s) - 1)) ELSE s

Strip(s) == RStrip(LStrip(s))

\* str(uuid.uuid5(namespace, f"{mac}-{uuid.uuid4()}")): the k-th value drawn
\* in the model; uuid4 makes every draw differ from all earlier ones.
UuidPool == <<"u1", "u2", "u3", "u4", "u5", "u6">>
NewUuidRepeated(k) == <<UuidPool[1]>>
NewUuid(k) == <<UuidPool[k]>>

NoFile == [exists |-> FALSE, text |-> <<>>]
FileOf(t) == [exists |-> TRUE, text |-> t]

\* Contents .nusa_id may have when a process starts.
InitialTexts == { <<"a">>, <<" ", "a", "\n">>, <<"\n">>, <<>> }
InitialFiles == {NoFile} \cup { FileOf(t) : t \in InitialTexts }
\* The cases of it a run of the whole process is started from.
RunFiles == {NoFile, FileOf(<<" ", "a", "\n">>)}

(* ------------------------------------------------------------------ *)
(* GPU probe                                                           *)
(* ------------------------------------------------------------------ *)
\* What GPUtil.getGPUs()[0] can report: memoryTotal in 0.1 MB, load in 0.001 %.
GpuModels ==
    { [name |-> "RTX3060", memoryTotal |-> 122885, driver |-> "535.1"],
      [name |-> "A100",    memoryTotal |-> 409600, driver |-> "550.2"] }
LoadReadings == {3746}

IntTrunc(x) == x \div 10                   \* int(gpu.memoryTotal)
Round2(x) == (x + 5) \div 10               \* round(current_load, 2), in 0.01 %

GpuUnset == [kind |-> "unset", name |-> "", vram_total |-> 0, driver_version |-> ""]
GpuNone  == [kind |-> "none",  name |-> "", vram_total |-> 0, driver_version |-> ""]
GPUInfo(g) ==
    [kind |-> "gpu", name |-> g.name, vram_total |-> IntTrunc(g.memoryTotal),
     driver_version |-> g.driver]

(* ------------------------------------------------------------------ *)
(* Registry configuration                                              *)
(* ------------------------------------------------------------------ *)
Unset == "<unset>"                          \* os.getenv returned None
UrlValues == {Unset, "", UrlPlaceholder, "https://proj.supabase.co"}
KeyValues == {Unset, "", KeyPlaceholder, "anon-key"}

Falsy(v) == v \in {Unset, ""}               \* "not v" for None and ""

ConfigOkNoPlaceholderCheck(u, k) == ~(Falsy(u) \/ Falsy(k))
ConfigOk(u, k) ==
    /\ ~(Falsy(u) \/ Falsy(k))
    /\ ~(u = UrlPlaceholder \/ k = KeyPlaceholder)


\* detect_gpu: q is what GPUtil.getGPUs() did (raised, or returned a list).
DetectProbes ==
    {[raised |-> TRUE, gpus |-> <<>>], [raised |-> FALSE, gpus |-> <<>>]}
    \cup { [raised |-> FALSE, gpus |-> <<g>>] : g \in GpuModels }

detect_gpu(q) ==
    IF q.raised THEN GpuNone
    ELSE IF q.gpus = <<>> THEN GpuNone
    ELSE GPUInfo(q.gpus[1])

\* get_current_gpu_load: the probe raised, found no GPU, or read gpus[0].load
\* (a fraction; load * 100 is the percentage, here in 0.001 %).
LoadProbes ==
    {[raised |-> TRUE, gpus |-> <<>>], [raised |-> FALSE, gpus |-> <<>>]}
    \cup { [raised |-> FALSE, gpus |-> <<l>>] : l \in LoadReadings }

GetLoadWithoutFallback(q) == IF q.gpus # <<>> THEN q.gpus[1] ELSE -1000
get_current_gpu_load(q) ==
    IF q.raised THEN 0
    ELSE IF q.gpus # <<>> THEN q.gpus[1]
    ELSE 0

\* "if not gpu_info" in main.
NoGpuNeverFatal(g) == FALSE
NoGpu(g) == g.kind = "none"

(* ------------------------------------------------------------------ *)
(* Registry table "nodes": a set of rows keyed by node_id              *)
(* ------------------------------------------------------------------ *)
NoData ==
    [node_id |-> <<>>, gpu_name |-> "", vram_total |-> 0, current_load |-> 0,
     status |-> "", last_seen |-> 0]
OtherRow ==
    [node_id |-> <<"other">>, gpu_name |-> "T4", vram_total |-> 15360,
     current_load |-> 1250, status |-> "online", last_seen |-> 0]

\* table.upsert(data, on_conflict="node_id")
Upsert(table, rec) == { r \in table : r.node_id # rec.node_id } \cup {rec}

NoUpdate == [status |-> "", last_seen |-> 0, eq_node_id |-> <<>>]
UpdateAsUpsert(table, u) ==
    Upsert(table, [NoData EXCEPT !.node_id = u.eq_node_id, !.status = u.status,
                                 !.last_seen = u.last_seen])

\* table.update({status, last_seen}).eq("node_id", id)
Update(table, u) ==
    { IF r.node_id = u.eq_node_id
        THEN [r EXCEPT !.status = u.status, !.last_seen = u.last_seen]
        ELSE r : r \in table }

(* ------------------------------------------------------------------ *)
(* State                                                               *)
(* ------------------------------------------------------------------ *)
VARIABLES
    pc,            \* position of the process
    exit_status,   \* NotExited, or the status the process ended with
    gpu_probe,     \* history: what GPUtil.getGPUs() did at startup
    gpu_info,      \* main: result of detect_gpu
    node_id,       \* main / get_or_create_node_id: the identifier
    client,        \* "unset", "ok" (create_client returned), "failed"
    url, key,      \* what init_supabase read from the environment
    create_raised, \* history: create_client was called and raised
    file,          \* the .nusa_id file
    uuids,         \* number of uuid4 values drawn so far
    retTo,         \* where get_or_create_node_id returns to
    read_raised,   \* get_or_create_node_id: read_text() raised
    resolved,      \* history: one entry per completed identity resolution
    deleted,       \* history: file was deleted since the last resolution
    fileReads,     \* history: exists()/read_text() calls on the file
    fileWrites,    \* history: write_text() calls on the file
    data,          \* send_heartbeat: the payload
    probes,        \* history: what the load probes of the current tick did
    attempt,       \* send_heartbeat: loop index
    success,       \* run_heartbeat_loop: "unset", "True", "False"
    sleepLeft,     \* time.sleep: seconds still to wait
    slept,         \* time.sleep: seconds waited so far
    trace,         \* history: calls, outcomes and waits of the current tick
    sent,          \* history: payloads passed to upsert in the current tick
    tickNo,        \* history: ticks started
    clock,         \* wall clock, seconds since process start
    registry,      \* the "nodes" table
    update_req,    \* update_status_offline: the update issued
    sigints,       \* history: interrupts delivered
    sigterm,       \* history: SIGTERM delivered
    stopAt,        \* history: position at which the first signal arrived
    upsertCalls,   \* history: upsert calls issued in this run
    upsertOks,     \* history: upsert calls of this run that returned
    offlineCalls,  \* history: update calls issued in this run
    offlineResult  \* history: "none", or how the update call ended

vars ==
    <<pc, exit_status, gpu_probe, gpu_info, node_id, client, url, key,
      create_raised, file, uuids, retTo, read_raised, resolved, deleted, fileReads, fileWrites, data, probes, attempt, success,
      sleepLeft, slept, trace, sent, tickNo, clock, registry,
      update_req, sigints, sigterm, stopAt, upsertCalls, upsertOks, offlineCalls,
      offlineResult>>

idVars   == <<node_id, file, uuids, retTo, read_raised, resolved, deleted, fileReads, fileWrites>>
tickVars == <<data, probes, attempt, success, sleepLeft, slept, trace, sent, tickNo>>
sigVars  == <<sigints, sigterm, stopAt>>
callVars == <<upsertCalls, upsertOks, offlineCalls, update_req, offlineResult>>
cfgVars  == <<gpu_probe, gpu_info, client, url, key, create_raised>>

InitCommon ==
    /\ exit_status = NotExited
    /\ gpu_probe = [raised |-> FALSE, gpus |-> <<>>]
    /\ gpu_info = GpuUnset
    /\ node_id = <<>>
    /\ client = "unset"
    /\ url = Unset /\ key = Unset
    /\ create_raised = FALSE
    /\ uuids = 0
    /\ retTo = "none"
    /\ read_raised = FALSE
    /\ resolved = <<>>
    /\ deleted = FALSE
    /\ fileReads = 0 /\ fileWrites = 0
    /\ data = NoData
    /\ probes = <<>>
    /\ attempt = 0
    /\ success = "unset"
    /\ sleepLeft = 0 /\ slept = 0
    /\ trace = <<>> /\ sent = <<>>
    /\ tickNo = 0
    /\ clock = 0
    /\ registry = {OtherRow}
    /\ update_req = NoUpdate
    /\ sigints = 0 /\ sigterm = FALSE /\ stopAt = "none"
    /\ upsertCalls = 0 /\ upsertOks = 0 /\ offlineCalls = 0
    /\ offlineResult = "none"

\* The process has just been started: main is about to run.
Init == InitCommon /\ file \in RunFiles /\ pc = "detect_gpu"

Exit(code) == pc' = "exited" /\ exit_status' = code

(* ------------------------------------------------------------------ *)
(* main, startup                                                       *)
(* ------------------------------------------------------------------ *)
\* main, step 1: detect_gpu and the fatal check.
DetectGpu ==
    /\ pc = "detect_gpu"
    /\ \E q \in DetectProbes :
         /\ gpu_probe' = q
         /\ gpu_info' = detect_gpu(q)
         /\ IF NoGpu(detect_gpu(q))
              THEN Exit(ExitFatal)
              ELSE pc' = "get_node_id" /\ UNCHANGED exit_status
    /\ UNCHANGED <<client, url, key, create_raised, idVars, tickVars, clock, registry,
                   sigVars, callVars>>

\* main, step 2: call get_or_create_node_id.
CallGetNodeId ==
    /\ pc = "get_node_id"
    /\ pc' = "id_exists"
    /\ retTo' = "init_supabase"
    /\ UNCHANGED <<exit_status, cfgVars, node_id, file, uuids, read_raised, resolved,
                   deleted, fileReads, fileWrites, tickVars, clock, registry, sigVars,
                   callVars>>


(* ------------------------------------------------------------------ *)
(* get_or_create_node_id                                               *)
(* ------------------------------------------------------------------ *)
\* One entry of the history of resolutions.
Resolution(v, how, f) ==
    [value |-> v, how |-> how, readRaised |-> read_raised,
     deletedBefore |-> deleted, fileAfter |-> f]

Return(v, how, f) ==
    /\ node_id' = v
    /\ resolved' = Append(resolved, Resolution(v, how, f))
    /\ deleted' = FALSE
    /\ pc' = retTo

\* "if id_file.exists()"
IdExists ==
    /\ pc = "id_exists"
    /\ fileReads' = fileReads + 1
    /\ read_raised' = FALSE
    /\ pc' = IF file.exists THEN "id_read" ELSE "id_generate"
    /\ UNCHANGED <<exit_status, cfgVars, node_id, file, uuids, retTo, resolved,
                   deleted, fileWrites, tickVars, clock, registry, sigVars, callVars>>

\* What read_text().strip() yields is returned when it is non-empty.
ReadAcceptsInverted(text) == Strip(text) = <<>>
ReadAccepts(text) == Strip(text) # <<>>

\* The try block around read_text(): the read raises, or the text is read.
IdRead ==
    /\ pc = "id_read"
    /\ fileReads' = fileReads + 1
    /\ \/ /\ read_raised' = TRUE                       \* except Exception
          /\ pc' = "id_generate"
          /\ UNCHANGED <<node_id, resolved, deleted>>
       \/ /\ file.exists
          /\ UNCHANGED read_raised
          /\ IF ReadAccepts(file.text)
               THEN Return(Strip(file.text), "read", file)
               ELSE /\ pc' = "id_generate"
                    /\ UNCHANGED <<node_id, resolved, deleted>>
    /\ UNCHANGED <<exit_status, cfgVars, file, uuids, retTo, fileWrites,
                   tickVars, clock, registry, sigVars, callVars>>

\* node_id = str(uuid.uuid5(namespace, f"{mac}-{uuid.uuid4()}"))
IdGenerate ==
    /\ pc = "id_generate"
    /\ uuids < Len(UuidPool)
    /\ uuids' = uuids + 1
    /\ node_id' = NewUuid(uuids + 1)
    /\ pc' = "id_write"
    /\ UNCHANGED <<exit_status, cfgVars, file, retTo, read_raised, resolved, deleted,
                   fileReads, fileWrites, tickVars, clock, registry, sigVars, callVars>>

\* id_file.write_text(node_id): written; or it raised when opening (file as
\* it was); or it raised after open() truncated the file.
WriteOutcomes == {"written", "open_failed", "write_failed"}

WriteTextDropsContent(f, text, outcome) ==
    IF outcome = "open_failed" THEN f ELSE FileOf(<<>>)

WriteText(f, text, outcome) ==
    CASE outcome = "written"      -> FileOf(text)
      [] outcome = "open_failed"  -> f
      [] outcome = "write_failed" -> FileOf(<<>>)

\* The try block around write_text(), and "return node_id".
IdWrite ==
    /\ pc = "id_write"
    /\ fileWrites' = fileWrites + 1
    /\ \E o \in WriteOutcomes :
         /\ file' = WriteText(file, node_id, o)
         /\ Return(node_id, o, WriteText(file, node_id, o))
    /\ UNCHANGED <<exit_status, cfgVars, uuids, retTo, read_raised, fileReads,
                   tickVars, clock, registry, sigVars, callVars>>

(* ------------------------------------------------------------------ *)
(* init_supabase, and main's check of its result                       *)
(* ------------------------------------------------------------------ *)
init_supabase(u, k, createRaises) ==
    IF ~ConfigOk(u, k) THEN "failed"
    ELSE IF createRaises THEN "failed"
    ELSE "ok"

InitSupabase ==
    /\ pc = "init_supabase"
    /\ \E u \in UrlValues, k \in KeyValues, createRaises \in BOOLEAN :
         /\ url' = u
         /\ key' = k
         /\ create_raised' = (ConfigOk(u, k) /\ createRaises)
         /\ client' = init_supabase(u, k, createRaises)
         /\ IF init_supabase(u, k, createRaises) = "ok"
              THEN pc' = "banner" /\ UNCHANGED exit_status
              ELSE Exit(ExitFatal)                      \* "if not client"
    /\ UNCHANGED <<gpu_probe, gpu_info, idVars, tickVars, clock, registry, sigVars,
                   callVars>>


(* ------------------------------------------------------------------ *)
(* run_heartbeat_loop and send_heartbeat                               *)
(* ------------------------------------------------------------------ *)
Event(op, d) == [op |-> op, d |-> d]

\* The log lines of run_heartbeat_loop that precede its try block.
Banner ==
    /\ pc = "banner"
    /\ pc' = "tick"
    /\ UNCHANGED <<exit_status, cfgVars, idVars, tickVars, clock, registry,
                   sigVars, callVars>>

PayloadRefreshedCapacity(id, gpu, load, status, now) ==
    [node_id |-> id, gpu_name |-> gpu.name, vram_total |-> gpu.vram_total + now,
     current_load |-> Round2(load), status |-> status, last_seen |-> now]

\* The payload send_heartbeat prepares.
Payload(id, gpu, load, status, now) ==
    [node_id |-> id, gpu_name |-> gpu.name, vram_total |-> gpu.vram_total,
     current_load |-> Round2(load), status |-> status, last_seen |-> now]

\* A tick starts: send_heartbeat samples the load and prepares the payload.
BuildRecord ==
    /\ pc = "tick"
    /\ tickNo < MaxTicks
    /\ tickNo' = tickNo + 1
    /\ \E q \in LoadProbes :
         /\ data' = Payload(node_id, gpu_info, get_current_gpu_load(q), "online", clock)
         /\ probes' = <<q>>
    /\ attempt' = 0
    /\ success' = "unset"
    /\ trace' = <<>>
    /\ sent' = <<>>
    /\ pc' = "attempt"
    /\ UNCHANGED <<exit_status, cfgVars, idVars, sleepLeft, slept, clock,
                   registry, sigVars, callVars>>

AttemptPayloadRebuilt == [data EXCEPT !.last_seen = clock]

\* What each attempt passes to upsert: the payload prepared before the loop.
AttemptPayload == data

\* client.table(TABLE_NAME).upsert(data, on_conflict="node_id").execute()
IssueUpsert ==
    /\ pc = "attempt"
    /\ upsertCalls' = upsertCalls + 1
    /\ trace' = Append(trace, Event("upsert", attempt))
    /\ sent' = Append(sent, AttemptPayload)
    /\ pc' = "inflight"
    /\ UNCHANGED <<exit_status, cfgVars, idVars, data, probes, attempt, success,
                   sleepLeft, slept, tickNo, clock, registry, sigVars,
                   upsertOks, offlineCalls, update_req, offlineResult>>

\* The upsert returned: "return True".
UpsertOk ==
    /\ pc = "inflight"
    /\ registry' = Upsert(registry, data)
    /\ trace' = Append(trace, Event("ok", attempt))
    /\ success' = "True"
    /\ upsertOks' = upsertOks + 1
    /\ pc' = "tick_done"
    /\ UNCHANGED <<exit_status, cfgVars, idVars, data, probes, attempt, sleepLeft,
                   slept, sent, tickNo, clock, sigVars, upsertCalls, offlineCalls,
                   update_req, offlineResult>>

\* "if attempt < MAX_RETRIES - 1" in the except branch of send_heartbeat.
RetriesLeft(a) == a < MAX_RETRIES - 1

\* What send_heartbeat does when the last attempt failed: "return False".
ExhaustedRaises == [returns |-> FALSE, value |-> "unset"]
Exhausted == [returns |-> TRUE, value |-> "False"]

\* The upsert raised: the except branch of send_heartbeat.
UpsertFail ==
    /\ pc = "inflight"
    /\ trace' = Append(trace, Event("fail", attempt))
    /\ IF RetriesLeft(attempt)
         THEN /\ sleepLeft' = RETRY_DELAYS[attempt + 1]      \* RETRY_DELAYS[attempt]
              /\ slept' = 0
              /\ pc' = "backoff"
              /\ UNCHANGED <<success, exit_status>>
         ELSE IF Exhausted.returns
           THEN /\ success' = Exhausted.value
                /\ pc' = "tick_done"
                /\ UNCHANGED <<sleepLeft, slept, exit_status>>
           ELSE /\ Exit(ExitFatal)                           \* uncaught exception
                /\ UNCHANGED <<success, sleepLeft, slept>>
    /\ UNCHANGED <<cfgVars, idVars, data, probes, attempt, sent, tickNo,
                   clock, registry, sigVars, callVars>>

\* Time passes during time.sleep.
Quantum == IF slept < SleepGrain THEN 1 ELSE sleepLeft

SleepStep ==
    /\ pc \in {"backoff", "interval"}
    /\ sleepLeft > 0
    /\ sleepLeft' = sleepLeft - Quantum
    /\ slept' = slept + Quantum
    /\ clock' = clock + Quantum
    /\ UNCHANGED <<pc, exit_status, cfgVars, idVars, data, probes, attempt, success,
                   trace, sent, tickNo, registry, sigVars, callVars>>

\* time.sleep(delay) returned: next iteration of "for attempt in range(MAX_RETRIES)",
\* or the "return False" after the loop.
BackoffWake ==
    /\ pc = "backoff"
    /\ sleepLeft = 0
    /\ trace' = Append(trace, Event("sleep", slept))
    /\ IF attempt + 1 < MAX_RETRIES
         THEN /\ attempt' = attempt + 1
              /\ pc' = "attempt"
              /\ UNCHANGED success
         ELSE /\ success' = "False"
              /\ pc' = "tick_done"
              /\ UNCHANGED attempt
    /\ UNCHANGED <<exit_status, cfgVars, idVars, data, probes, sleepLeft, slept,
                   sent, tickNo, clock, registry, sigVars, callVars>>

\* send_heartbeat returned; the loop logs and calls time.sleep(HEARTBEAT_INTERVAL).
TickDone ==
    /\ pc = "tick_done"
    /\ sleepLeft' = HEARTBEAT_INTERVAL
    /\ slept' = 0
    /\ pc' = "interval"
    /\ UNCHANGED <<exit_status, cfgVars, idVars, data, probes, attempt, success,
                   trace, sent, tickNo, clock, registry, sigVars, callVars>>

\* time.sleep(HEARTBEAT_INTERVAL) returned: "while True" iterates.
IntervalWake ==
    /\ pc = "interval"
    /\ sleepLeft = 0
    /\ pc' = "tick"
    /\ UNCHANGED <<exit_status, cfgVars, idVars, tickVars, clock, registry,
                   sigVars, callVars>>


(* ------------------------------------------------------------------ *)
(* Signals and shutdown                                                *)
(* ------------------------------------------------------------------ *)
\* Positions inside "try: while True: ..." of run_heartbeat_loop.  The
\* "except Exception" of send_heartbeat does not catch KeyboardInterrupt, so
\* an interrupt at any of them reaches "except KeyboardInterrupt".
InTryBlockAwake(p) == p \in {"tick", "attempt", "inflight", "tick_done"}
InTryBlock(p) == p \in {"tick", "attempt", "inflight", "backoff", "tick_done", "interval"}

\* A registry call abandoned in flight has reached the registry or has not.
Abandoned(p) ==
    CASE p = "inflight"         -> {registry, Upsert(registry, data)}
      [] p = "offline_inflight" -> {registry, Update(registry, update_req)}
      [] OTHER                  -> {registry}

\* SIGINT: Python raises KeyboardInterrupt at the current position.
Interrupt ==
    /\ exit_status = NotExited
    /\ pc # "harness"
    /\ sigints < MaxSignals
    /\ sigints' = sigints + 1
    /\ stopAt' = IF stopAt = "none" THEN pc ELSE stopAt
    /\ registry' \in Abandoned(pc)
    /\ IF InTryBlock(pc)
         THEN pc' = "shutdown" /\ UNCHANGED exit_status
         ELSE Exit(ExitInterrupt)
    /\ UNCHANGED <<cfgVars, idVars, tickVars, clock, sigterm, callVars>>

\* SIGTERM: no handler is installed, the process is killed.
Terminate ==
    /\ exit_status = NotExited
    /\ pc # "harness"
    /\ sigterm' = TRUE
    /\ stopAt' = IF stopAt = "none" THEN pc ELSE stopAt
    /\ registry' \in Abandoned(pc)
    /\ Exit(ExitTerminated)
    /\ UNCHANGED <<cfgVars, idVars, tickVars, clock, sigints, callVars>>

\* update_status_offline: client.table(TABLE_NAME).update({...}).eq(...).execute()
IssueOffline ==
    /\ pc = "shutdown"
    /\ update_req' = [status |-> "offline", last_seen |-> clock, eq_node_id |-> node_id]
    /\ offlineCalls' = offlineCalls + 1
    /\ pc' = "offline_inflight"
    /\ UNCHANGED <<exit_status, cfgVars, idVars, data, probes, attempt, success,
                   sleepLeft, slept, trace, sent, tickNo, clock, registry, sigVars,
                   upsertCalls, upsertOks, offlineResult>>

\* The end of the except KeyboardInterrupt block: sys.exit(0).
HandlerFallsBackToLoop == [pc |-> "tick", status |-> NotExited]
HandlerEnd == [pc |-> "exited", status |-> ExitOk]

\* The update returned; the handler logs and exits.
OfflineOk ==
    /\ pc = "offline_inflight"
    /\ registry' = Update(registry, update_req)
    /\ offlineResult' = "ok"
    /\ pc' = HandlerEnd.pc
    /\ exit_status' = HandlerEnd.status
    /\ UNCHANGED <<cfgVars, idVars, tickVars, clock, sigVars, upsertCalls, upsertOks,
                   offlineCalls, update_req>>

\* "except Exception" in update_status_offline: the error is logged.
OfflineErrorPropagates == FALSE
OfflineErrorCaught == TRUE

\* The update raised.
OfflineFail ==
    /\ pc = "offline_inflight"
    /\ IF OfflineErrorCaught
         THEN pc' = HandlerEnd.pc /\ exit_status' = HandlerEnd.status
         ELSE Exit(ExitFatal)
    /\ offlineResult' = "failed"
    /\ UNCHANGED <<cfgVars, idVars, tickVars, clock, registry, sigVars, upsertCalls,
                   upsertOks,
                   offlineCalls, update_req>>

(* ------------------------------------------------------------------ *)
(* Specification of one run of the process                             *)
(* ------------------------------------------------------------------ *)
Startup == DetectGpu \/ CallGetNodeId \/ IdExists \/ IdRead \/ IdGenerate
             \/ IdWrite \/ InitSupabase \/ Banner
Loop == BuildRecord \/ IssueUpsert \/ UpsertOk \/ UpsertFail
          \/ SleepStep \/ BackoffWake \/ TickDone \/ IntervalWake
Shutdown == IssueOffline \/ OfflineOk \/ OfflineFail
Program == Startup \/ Loop \/ Shutdown

Next == Program \/ Interrupt \/ Terminate

Spec == Init /\ [][Next]_vars

\* The process keeps running and its sleeps and registry calls end.
FairSpec == Spec /\ WF_vars(Program)

(* ------------------------------------------------------------------ *)
(* Specification of repeated identity resolutions on one installation  *)
(* ------------------------------------------------------------------ *)
InitId == InitCommon /\ file \in InitialFiles /\ pc = "harness"

\* get_or_create_node_id is called (by a new process, or again).
Resolve ==
    /\ pc = "harness"
    /\ Len(resolved) < MaxResolves
    /\ pc' = "id_exists"
    /\ retTo' = "harness"
    /\ UNCHANGED <<exit_status, cfgVars, node_id, file, uuids, read_raised, resolved,
                   deleted, fileReads, fileWrites, tickVars, clock, registry, sigVars,
                   callVars>>

\* Somebody other than the agent deletes the file between resolutions.
DeleteFile ==
    /\ pc = "harness"
    /\ file.exists
    /\ file' = NoFile
    /\ deleted' = TRUE
    /\ UNCHANGED <<pc, exit_status, cfgVars, node_id, uuids, retTo, read_raised,
                   resolved, fileReads, fileWrites, tickVars, clock, registry, sigVars,
                   callVars>>

NextId == Resolve \/ DeleteFile \/ IdExists \/ IdRead \/ IdGenerate \/ IdWrite

SpecId == InitId /\ [][NextId]_vars

(* ------------------------------------------------------------------ *)
(* Helpers of the properties                                           *)
(* ------------------------------------------------------------------ *)
Count(t, op) == Cardinality({ i \in 1..Len(t) : t[i].op = op })

IsPrefix(t, u) == Len(t) <= Len(u) /\ SubSeq(u, 1, Len(t)) = t

\* What a tick whose three upsert calls all fail does, in order.
AllFailTrace ==
    << Event("upsert", 0), Event("fail", 0), Event("sleep", 1),
       Event("upsert", 1), Event("fail", 1), Event("sleep", 2),
       Event("upsert", 2), Event("fail", 2) >>

\* What a tick does whose first two upsert calls fail and whose third succeeds.
RecoveryTrace ==
    << Event("upsert", 0), Event("fail", 0), Event("sleep", 1),
       Event("upsert", 1), Event("fail", 1), Event("sleep", 2),
       Event("upsert", 2), Event("ok", 2) >>

(* ------------------------------------------------------------------ *)
(* C1                                                                  *)
(* ------------------------------------------------------------------ *)
\* C1 (retry bound): as long as no upsert call of the current tick has
\* succeeded, what the tick has done is a prefix of: upsert, wait 1 s, upsert,
\* wait 2 s, upsert.  Once the third call has failed nothing follows it in the
\* tick: send_heartbeat has returned False (no exception ended the process)
\* and the only time spent in the tick is the 1 + 2 seconds of backoff.
C1_RetryBound ==
    (tickNo > 0 /\ Count(trace, "ok") = 0) =>
        /\ IsPrefix(trace, AllFailTrace)
        /\ Count(trace, "fail") = MAX_RETRIES =>
             /\ trace = AllFailTrace
             /\ success = "False"
             /\ exit_status # ExitFatal
             /\ pc \notin {"attempt", "inflight", "backoff"}
             /\ pc = "tick_done" => clock = data.last_seen + 3

C1_Witness ==
    /\ pc = "tick_done"
    /\ success = "False"
    /\ trace = AllFailTrace

(* ------------------------------------------------------------------ *)
(* C2                                                                  *)
(* ------------------------------------------------------------------ *)
\* C2 (recovery): in every tick at most 3 upsert calls are made; a successful
\* call is the last thing the tick does and makes send_heartbeat return True,
\* whatever failed before it; send_heartbeat returns False only after 3
\* failed calls.
C2_Recovery ==
    /\ Count(trace, "upsert") <= 3
    /\ Count(trace, "ok") <= 1
    /\ Count(trace, "ok") = 1 =>
         /\ trace[Len(trace)].op = "ok"
         /\ success = "True"
         /\ Count(trace, "upsert") = Count(trace, "fail") + 1
    /\ success = "True" => Count(trace, "ok") = 1
    /\ success = "False" => (Count(trace, "fail") = 3 /\ Count(trace, "ok") = 0)

C2_Witness ==
    /\ pc = "tick_done"
    /\ success = "True"
    /\ trace = RecoveryTrace

(* ------------------------------------------------------------------ *)
(* C3                                                                  *)
(* ------------------------------------------------------------------ *)
\* The only signal of the run was one interrupt, and it arrived during
\* time.sleep(HEARTBEAT_INTERVAL).
StoppedWhileSleeping == stopAt = "interval" /\ sigints = 1 /\ ~sigterm

\* C3 (lifecycle ordering): an interrupt that arrives while the loop sleeps
\* between two ticks leads to the end of the process; the update that marks
\* the node offline is issued exactly once on the way, the exit status is 0,
\* and no upsert is issued from the interrupt on.
C3_StopWhileSleeping ==
    /\ [](StoppedWhileSleeping =>
            /\ offlineCalls <= 1
            /\ pc = "exited" => (offlineCalls = 1 /\ exit_status = ExitOk))
    /\ [][StoppedWhileSleeping' => upsertCalls' = upsertCalls]_vars
    /\ (StoppedWhileSleeping ~> (pc = "exited"))

C3_Witness ==
    /\ StoppedWhileSleeping
    /\ pc = "exited"
    /\ offlineCalls = 1
    /\ upsertCalls > 0

(* ------------------------------------------------------------------ *)
(* C4                                                                  *)
(* ------------------------------------------------------------------ *)
\* C4 (offline mark is the last write attempt): once the offline update has
\* been issued no upsert is issued any more; and an interrupt that arrives
\* while an upsert is in flight takes the process to the shutdown handler
\* without the attempt being completed, retried or counted as failed.
C4_OfflineMarkLast ==
    /\ [][offlineCalls > 0 => upsertCalls' = upsertCalls]_vars
    /\ [][(pc = "inflight" /\ sigints' # sigints) =>
            (pc' = "shutdown" /\ trace' = trace /\ success' = success
               /\ upsertCalls' = upsertCalls)]_vars
    /\ [][pc = "shutdown" => (pc' = "shutdown" \/ offlineCalls' = offlineCalls + 1
                               \/ pc' = "exited")]_vars

C4_Witness ==
    /\ stopAt = "inflight"
    /\ sigints = 1
    /\ offlineCalls = 1
    /\ pc = "exited"
    /\ exit_status = ExitOk


(* ------------------------------------------------------------------ *)
(* C5                                                                  *)
(* ------------------------------------------------------------------ *)
\* C5 (clean shutdown on either stop signal): a process that was in the loop
\* when its first stop signal (interrupt or termination) arrived, and has
\* ended, has issued the offline update once and ended with status 0.
C5_CleanExitOnStopSignal ==
    (pc = "exited" /\ InTryBlock(stopAt)) =>
        (offlineCalls = 1 /\ exit_status = ExitOk)

(* ------------------------------------------------------------------ *)
(* C6                                                                  *)
(* ------------------------------------------------------------------ *)
\* C6 (offline mark is one attempt): the offline update is issued at most
\* once in a run; when the call has ended, by returning or by raising, it has
\* been issued exactly once, and unless a further signal arrived the process
\* has ended with status 0, also when the call raised.
C6_SingleOfflineAttempt ==
    /\ offlineCalls <= 1
    /\ offlineResult # "none" =>
         /\ offlineCalls = 1
         /\ pc = "exited"
         /\ exit_status = ExitOk
    /\ (pc = "exited" /\ exit_status = ExitOk) => offlineResult # "none"

C6_Witness ==
    /\ offlineResult = "failed"
    /\ offlineCalls = 1
    /\ exit_status = ExitOk

(* ------------------------------------------------------------------ *)
(* C7                                                                  *)
(* ------------------------------------------------------------------ *)
\* C7 (failures never stop the loop): a process that has entered the loop
\* and received no signal has not ended, whatever upsert calls and load
\* probes failed; and from every tick, also one that exhausted its retries,
\* the next tick is started unless a signal arrives.
C7_LoopNeverStops ==
    /\ []((client = "ok" /\ stopAt = "none") => exit_status = NotExited)
    /\ \A n \in 0..(MaxTicks - 1) :
         (client = "ok" /\ tickNo = n) ~> (tickNo = n + 1 \/ stopAt # "none")
    /\ \A n \in 1..(MaxTicks - 1) :
         (tickNo = n /\ pc = "tick_done" /\ success = "False")
            ~> ((tickNo = n + 1 /\ pc = "attempt") \/ stopAt # "none")

\* Every tick so far failed all its attempts, with the load probe failing.
C7_Witness ==
    /\ tickNo = MaxTicks
    /\ pc = "tick_done"
    /\ success = "False"
    /\ data.current_load = 0
    /\ data.last_seen >= HEARTBEAT_INTERVAL
    /\ registry = {OtherRow}
    /\ stopAt = "none"

(* ------------------------------------------------------------------ *)
(* C8                                                                  *)
(* ------------------------------------------------------------------ *)
\* C8 (fatal path): when GPUtil raised or reported no GPU at startup,
\* detect_gpu returned None and the process has ended with status 1: no
\* registry client was created, no upsert or update was issued, no tick was
\* started, and the identity file was neither looked up, read nor written.
C8_NoGpuIsFatal ==
    /\ (gpu_info # GpuUnset /\ (gpu_probe.raised \/ gpu_probe.gpus = <<>>)) =>
          gpu_info = GpuNone
    /\ gpu_info = GpuNone =>
         /\ pc = "exited"
         /\ exit_status = ExitFatal
         /\ client = "unset"
         /\ upsertCalls = 0 /\ offlineCalls = 0
         /\ tickNo = 0
         /\ fileReads = 0 /\ fileWrites = 0
         /\ file \in RunFiles
         /\ node_id = <<>>

C8_Witness ==
    /\ gpu_probe.raised
    /\ gpu_info = GpuNone
    /\ exit_status = ExitFatal

(* ------------------------------------------------------------------ *)
(* C9                                                                  *)
(* ------------------------------------------------------------------ *)
\* init_supabase has run with a missing or placeholder URL or key, or
\* create_client raised.
BadRegistrySetup ==
    /\ client # "unset"
    /\ \/ url \in {Unset, "", UrlPlaceholder}
       \/ key \in {Unset, "", KeyPlaceholder}
       \/ create_raised

\* C9 (registry setup failure is fatal): in that case the process has ended
\* with status 1 without entering the loop: no tick, no upsert, no update.
C9_BadSetupIsFatal ==
    BadRegistrySetup =>
        /\ client = "failed"
        /\ pc = "exited"
        /\ exit_status = ExitFatal
        /\ tickNo = 0
        /\ upsertCalls = 0 /\ offlineCalls = 0
        /\ registry = {OtherRow}

C9_Witness ==
    /\ client = "failed"
    /\ url = "https://proj.supabase.co"
    /\ key = KeyPlaceholder
    /\ exit_status = ExitFatal

(* ------------------------------------------------------------------ *)
(* C10                                                                 *)
(* ------------------------------------------------------------------ *)
\* Resolutions i and i+1 happened with no deletion of the file in between,
\* and resolution i left the file holding the identifier it returned.
PersistedBetween(i) ==
    /\ ~resolved[i + 1].deletedBefore
    /\ resolved[i].fileAfter.exists
    /\ Strip(resolved[i].fileAfter.text) = resolved[i].value

\* C10 as stated (identity idempotence): two resolutions in sequence, with
\* the persisted file not deleted in between, return the same value.
C10_Idempotent ==
    \A i \in 1..(Len(resolved) - 1) :
        PersistedBetween(i) => resolved[i + 1].value = resolved[i].value

\* C10 as amended: two resolutions in sequence, with the persisted file not
\* deleted in between, return the same value provided read_text() does not
\* raise in the second one; the second one then takes the value from the file.
C10_IdempotentWhenReadable ==
    \A i \in 1..(Len(resolved) - 1) :
        (PersistedBetween(i) /\ ~resolved[i + 1].readRaised)
        => /\ resolved[i + 1].value = resolved[i].value
           /\ resolved[i + 1].how = "read"

\* A generated identifier was persisted and the next resolution returned it.
C10_Witness ==
    /\ Len(resolved) >= 2
    /\ resolved[1].how = "written"
    /\ PersistedBetween(1)
    /\ ~resolved[2].readRaised
    /\ resolved[2].value = resolved[1].value

(* ------------------------------------------------------------------ *)
(* C11                                                                 *)
(* ------------------------------------------------------------------ *)
\* Nobody deleted the file between resolution i and resolution j.
NoDeletionFrom(i, j) == \A k \in (i + 1)..j : ~resolved[k].deletedBefore

\* read_text() raised in none of the resolutions after i up to j.
NoReadErrorFrom(i, j) == \A k \in (i + 1)..j : ~resolved[k].readRaised

\* C11 as stated (persistence round trip): when a resolution generated an
\* identifier and wrote it to the file, every later resolution before which
\* the file was left alone returns that identifier.
C11_RoundTrip ==
    \A i \in 1..Len(resolved) : \A j \in (i + 1)..Len(resolved) :
        (resolved[i].how = "written" /\ NoDeletionFrom(i, j))
        => resolved[j].value = resolved[i].value

\* C11 as amended: ... provided read_text() raised in none of the resolutions
\* in between and in the later one; the later one reads the value from the
\* file, which still holds exactly what was written.
C11_RoundTripWhenReadable ==
    \A i \in 1..Len(resolved) : \A j \in (i + 1)..Len(resolved) :
        (resolved[i].how = "written" /\ NoDeletionFrom(i, j) /\ NoReadErrorFrom(i, j))
        => /\ resolved[j].value = resolved[i].value
           /\ resolved[j].how = "read"
           /\ resolved[j].fileAfter = FileOf(resolved[i].value)

\* The first resolution found no usable file, generated and persisted an
\* identifier, and two later resolutions returned it.
C11_Witness ==
    /\ Len(resolved) = 3
    /\ resolved[1].how = "written"
    /\ NoDeletionFrom(1, 3)
    /\ resolved[2].how = "read"
    /\ resolved[3].how = "read"
    /\ resolved[3].value = resolved[1].value
    /\ resolved[1].value = NewUuid(1)

(* ------------------------------------------------------------------ *)
(* C12                                                                 *)
(* ------------------------------------------------------------------ *)
\* The file holds an identifier (text that is not blank).
HoldsIdentifier(f) == f.exists /\ Strip(f.text) # <<>>

\* C12 (the identity file is never mutated): while the file holds an
\* identifier no step of the agent changes its content (the only change is
\* its deletion by somebody else), and the agent calls write_text() only
\* when the file is missing.
C12_FileNeverMutated ==
    /\ [][(HoldsIdentifier(file) /\ file' # NoFile) => file' = file]_vars
    /\ [][fileWrites' # fileWrites => ~file.exists]_vars

(* ------------------------------------------------------------------ *)
(* C15                                                                 *)
(* ------------------------------------------------------------------ *)
WriteFailed(r) == r.how \in {"open_failed", "write_failed"}

\* Number of identifiers generated by the first i resolutions.
GeneratedUpTo(i) == Cardinality({ k \in 1..i : resolved[k].how # "read" })

\* The file is absent when resolution j starts.
AbsentAtStart(j) ==
    \/ resolved[j].deletedBefore
    \/ j > 1 /\ resolved[j - 1].fileAfter = NoFile

\* C15 (failing to persist the identifier is not fatal): a resolution whose
\* write_text() failed still returned the identifier it generated, without
\* ending the process; and every later resolution that starts with the file
\* absent generates an identifier different from all those returned before.
C15_EphemeralIdentity ==
    \A i \in 1..Len(resolved) :
        WriteFailed(resolved[i]) =>
            /\ resolved[i].value = NewUuid(GeneratedUpTo(i))
            /\ exit_status = NotExited
            /\ (Len(resolved) = i /\ pc = "harness") => node_id = resolved[i].value
            /\ \A j \in (i + 1)..Len(resolved) :
                   AbsentAtStart(j) =>
                       /\ resolved[j].how # "read"
                       /\ resolved[j].value = NewUuid(GeneratedUpTo(j))
                       /\ \A k \in 1..(j - 1) : resolved[k].value # resolved[j].value

C15_Witness ==
    /\ Len(resolved) = 3
    /\ resolved[1].how = "open_failed" /\ resolved[1].fileAfter = NoFile
    /\ resolved[2].how = "write_failed" /\ resolved[3].deletedBefore
    /\ resolved[2].value # resolved[1].value
    /\ resolved[3].value # resolved[2].value /\ resolved[3].value # resolved[1].value
    /\ node_id = resolved[3].value

(* ------------------------------------------------------------------ *)
(* C13                                                                 *)
(* ------------------------------------------------------------------ *)
\* The load probe of the current tick raised or found no GPU.
ProbeFailed == probes # <<>> /\ (probes[1].raised \/ probes[1].gpus = <<>>)

\* C13 (load degradation): in a tick whose load probe failed, the record
\* is built with load 0 and status "online", it is what every upsert of the
\* tick is given, an upsert is issued once the tick is past its first
\* attempt, and the process does not end with an error (it has not ended at
\* all unless a signal arrived).
C13_LoadDegradation ==
    ProbeFailed =>
        /\ data.current_load = 0
        /\ data.status = "online"
        /\ data.node_id = node_id
        /\ \A i \in 1..Len(sent) : sent[i] = data /\ sent[i].current_load = 0
        /\ pc \in {"inflight", "backoff", "tick_done", "interval"} => sent # <<>>
        /\ exit_status # ExitFatal
        /\ stopAt = "none" => exit_status = NotExited

C13_Witness ==
    /\ probes = <<[raised |-> TRUE, gpus |-> <<>>]>>
    /\ tickNo = 2
    /\ pc = "tick_done"
    /\ success = "True"
    /\ \E r \in registry :
         r.node_id = node_id /\ r.current_load = 0 /\ r.last_seen = data.last_seen

(* ------------------------------------------------------------------ *)
(* C14                                                                 *)
(* ------------------------------------------------------------------ *)
\* The first signal was an interrupt that arrived in time.sleep(delay) of
\* send_heartbeat, and no other signal has arrived since.
StoppedInBackoff == stopAt = "backoff" /\ sigints = 1 /\ ~sigterm

\* C14 (the backoff sleep is interruptible): an interrupt that arrives
\* during the sleep between two attempts of a tick ends the tick there: the
\* tick returns no result, the last registry event of the tick stays the
\* failed attempt, no upsert is issued and no time is waited from then on,
\* and the only registry call that follows is one update marking the node
\* offline.
C14_StopInBackoff ==
    /\ [](StoppedInBackoff =>
            /\ pc \in {"shutdown", "offline_inflight", "exited"}
            /\ success = "unset"
            /\ trace # <<>> /\ trace[Len(trace)].op = "fail"
            /\ Len(sent) = attempt + 1
            /\ offlineCalls = IF pc = "shutdown" THEN 0 ELSE 1)
    /\ [][stopAt = "backoff" =>
            /\ upsertCalls' = upsertCalls
            /\ sent' = sent /\ trace' = trace
            /\ tickNo' = tickNo
            /\ clock' = clock]_vars
    /\ [][(stopAt = "none" /\ StoppedInBackoff') =>
            (pc = "backoff" /\ pc' = "shutdown" /\ registry' = registry)]_vars

\* Interrupted with part of the second backoff sleep still to go; the node
\* has been marked offline since.
C14_Witness ==
    /\ StoppedInBackoff
    /\ attempt = 1 /\ sleepLeft > 0 /\ slept > 0
    /\ pc = "exited" /\ exit_status = ExitOk
    /\ offlineCalls = 1
    /\ Count(trace, "upsert") = 2

(* ------------------------------------------------------------------ *)
(* C16                                                                 *)
(* ------------------------------------------------------------------ *)
\* Seconds spent in the backoff sleeps recorded in trace t.
RECURSIVE BackoffTime(_)
BackoffTime(t) ==
    IF t = <<>> THEN 0
    ELSE (IF t[1].op = "sleep" THEN t[1].d ELSE 0) + BackoffTime(Tail(t))

\* A tick other than the first one starts in this step.
NextTickStarts == tickNo > 0 /\ tickNo' = tickNo + 1

\* C16 (tick cadence, no overlap): a tick after the first starts only when
\* send_heartbeat of the previous tick has returned True or False and the
\* sleep that followed has lasted 60 seconds; it starts 60 seconds after
\* the end of the previous tick, that is 60 seconds plus the previous
\* tick's backoff time after the previous tick's start.
C16_Cadence ==
    [][NextTickStarts =>
         /\ pc = "tick"
         /\ success \in {"True", "False"}
         /\ sleepLeft = 0 /\ slept = 60
         /\ trace # <<>> /\ trace[Len(trace)].op \in {"ok", "fail"}
         /\ clock = data.last_seen + BackoffTime(trace) + 60
         /\ data'.last_seen = clock]_vars

\* The second tick has started 63 seconds after the first, which failed
\* three times and slept 1 and 2 seconds in between.
C16_Witness ==
    /\ tickNo = 2
    /\ pc = "attempt"
    /\ data.last_seen = 63
    /\ clock = 63

(* ------------------------------------------------------------------ *)
(* C17                                                                 *)
(* ------------------------------------------------------------------ *)
\* Row r2 is row r1 but for its status and timestamp.
SameButStatusAndTime(r1, r2) ==
    /\ r2.node_id = r1.node_id
    /\ r2.gpu_name = r1.gpu_name
    /\ r2.vram_total = r1.vram_total
    /\ r2.current_load = r1.current_load

\* C17 (marking offline changes only status and timestamp): the update
\* that update_status_offline issues sets the status "offline" and a
\* timestamp and nothing else, and selects the rows of this node's
\* identifier; when the registry applies it, rows of other nodes stay as
\* they are, the node's row keeps its identifier, name, capacity and load
\* and gets the status and timestamp of the update, and no row is added.
C17_OfflineUpdate ==
    /\ [](offlineCalls > 0 =>
            /\ DOMAIN update_req = {"status", "last_seen", "eq_node_id"}
            /\ update_req.status = "offline"
            /\ update_req.eq_node_id = node_id
            /\ offlineCalls = 1)
    /\ [][(pc = "offline_inflight" /\ registry' # registry) =>
            /\ \A r \in registry : r.node_id # node_id => r \in registry'
            /\ \A r2 \in registry' : \E r1 \in registry :
                   /\ SameButStatusAndTime(r1, r2)
                   /\ r2.node_id = node_id =>
                        (r2.status = "offline" /\ r2.last_seen = update_req.last_seen)
            /\ Cardinality(registry') = Cardinality(registry)]_vars
    /\ [][(pc = "offline_inflight" /\ ~\E r \in registry : r.node_id = node_id)
            => registry' = registry]_vars

\* The node's row, upserted with a load of 3.75 %, has been marked offline
\* at a later time.
C17_Witness ==
    /\ pc = "exited"
    /\ offlineResult = "ok"
    /\ update_req.last_seen > data.last_seen
    /\ OtherRow \in registry
    /\ \E r \in registry :
         /\ r.node_id = node_id
         /\ r.status = "offline"
         /\ r.last_seen = update_req.last_seen
         /\ r.current_load = Round2(3746)
         /\ r.gpu_name = gpu_info.name /\ r.vram_total = gpu_info.vram_total

(* ------------------------------------------------------------------ *)
(* C18                                                                 *)
(* ------------------------------------------------------------------ *)
\* Record r carries the identity resolved and the GPU detected at startup.
CarriesStartupValues(r) ==
    /\ r.node_id = resolved[Len(resolved)].value
    /\ r.gpu_name = detect_gpu(gpu_probe).name
    /\ r.vram_total = detect_gpu(gpu_probe).vram_total
    /\ r.status = "online"

\* C18 (identity and GPU description are fixed for the run): every record
\* given to upsert carries the identifier that get_or_create_node_id
\* returned at startup, the name and memory that detect_gpu returned at
\* startup, and the status "online"; the identifier and the GPU description
\* do not change once the loop runs, and the record of a tick differs from
\* the record of the tick before in load and timestamp only.
C18_FixedForTheRun ==
    /\ [](\A i \in 1..Len(sent) : CarriesStartupValues(sent[i]))
    /\ [](tickNo > 0 => CarriesStartupValues(data))
    /\ [][client = "ok" =>
            /\ node_id' = node_id /\ gpu_info' = gpu_info
            /\ resolved' = resolved /\ gpu_probe' = gpu_probe]_vars
    /\ [][NextTickStarts =>
            data' = [data EXCEPT !.current_load = data'.current_load,
                                 !.last_seen = data'.last_seen]]_vars

\* The second tick sends a record whose load and timestamp differ from
\* those of the row that the first tick left in the registry.
C18_Witness ==
    /\ tickNo = 2
    /\ Len(sent) = 1
    /\ \E r \in registry :
         /\ r.node_id = sent[1].node_id
         /\ r.gpu_name = sent[1].gpu_name /\ r.vram_total = sent[1].vram_total
         /\ r.status = "online" /\ sent[1].status = "online"
         /\ r.current_load # sent[1].current_load
         /\ r.last_seen # sent[1].last_seen

(* ------------------------------------------------------------------ *)
(* C19                                                                 *)
(* ------------------------------------------------------------------ *)
\* C19 (one record per tick): a tick probes the load once and prepares one
\* record, timestamp included, before its first attempt; the record and the
\* probe stay as they are for the rest of the tick, and every attempt of the
\* tick gives that same record to upsert, however much time has passed.
C19_OneRecordPerTick ==
    /\ [](tickNo > 0 =>
            /\ Len(probes) = 1
            /\ Len(sent) = Count(trace, "upsert")
            /\ \A i \in 1..Len(sent) : sent[i] = data
            /\ data.current_load = Round2(get_current_gpu_load(probes[1])))
    /\ [][tickNo' = tickNo => (data' = data /\ probes' = probes)]_vars
    /\ [][tickNo' # tickNo => (Len(probes') = 1 /\ sent' = <<>> /\ data'.last_seen = clock)]_vars

\* The third attempt of a tick, 3 seconds after the record was prepared,
\* has sent what the first attempt sent.
C19_Witness ==
    /\ Len(sent) = 3
    /\ pc = "inflight"
    /\ clock = data.last_seen + 3
    /\ sent[3] = sent[1] /\ sent[2] = sent[1]
    /\ sent[3].last_seen = data.last_seen
    /\ probes[1].gpus # <<>>

(* ------------------------------------------------------------------ *)
(* C20                                                                 *)
(* ------------------------------------------------------------------ *)
\* The rows of the registry under this node's identifier.
NodeRows == { r \in registry : r.node_id = node_id }

\* The first signal arrived in the loop, the update marking the node
\* offline returned, and the process has ended.
CleanShutdown == pc = "exited" /\ offlineResult = "ok" /\ InTryBlock(stopAt)

\* C20 (registry after a clean shutdown): when the process has ended after
\* a signal received in the loop and a successful update, every row of this
\* node has the status "offline"; and when no upsert call of the run
\* returned, the registry has no row of this node.
C20_EndState ==
    CleanShutdown =>
        /\ \A r \in NodeRows : r.status = "offline"
        /\ upsertOks = 0 => NodeRows = {}

\* C20 as it holds: the registry has no row of this node when no upsert
\* call returned and none was abandoned in flight by the signal; a row of
\* the node is "offline" with the timestamp of the update, and nothing
\* changes the registry after the process has ended.
C20_EndStateUnlessAbandoned ==
    /\ [](CleanShutdown =>
            /\ \A r \in NodeRows :
                   r.status = "offline" /\ r.last_seen = update_req.last_seen
            /\ (upsertOks = 0 /\ stopAt # "inflight") => NodeRows = {}
            /\ upsertOks > 0 => NodeRows # {})
    /\ [][exit_status # NotExited => registry' = registry]_vars

\* Three upsert calls failed, the interrupt came in the sleep that
\* followed, the update returned: the registry has no row of the node.
C20_Witness ==
    /\ CleanShutdown
    /\ stopAt = "interval"
    /\ upsertOks = 0 /\ upsertCalls = 3
    /\ NodeRows = {}
    /\ registry = {OtherRow}

====
